---- MODULE Spec2Model ----
(***************************************************************************)
(* International education cost tracker: record lookup, per-program budget *)
(* projection and the policy frame, modelled from src/feature/*.py and     *)
(* src/views/__init__.py.                                                  *)
(*                                                                         *)
(* Python floats are modelled as exact rationals [n, d] in lowest terms    *)
(* (d > 0), so that structural equality is numeric equality; rounding of   *)
(* IEEE doubles is not modelled.  A CSV cell is one of                     *)
(*   Absent  - the column (key) is not in the row,                         *)
(*   NaN     - the column is there and the cell is empty,                  *)
(*   Bad     - a cell holding non-numeric text,                            *)
(*   Num(r)  - a finite number,                                            *)
(*   Str(s)  - a text cell, s a sequence of one-character strings.         *)
(***************************************************************************)
EXTENDS Integers, Sequences, FiniteSets, TLC

VARIABLES df, query, ny_living, inflation, pc, row, result, frame,
          form, error, charts, response,
          levers, target_annual, scen, gaps, tables,
          reqs, files

\* The /budget-planning request: its form, and what the view renders.
webVars == <<form, error, charts, response>>

\* The /policy-analysis pipeline after the frame: the scenario levers and
\* the target given, the scenario frame, the gap tables and the summaries.
policyVars == <<levers, target_annual, scen, gaps, tables>>

\* Requests served at the same time, each with its own locals, and the
\* files of the static directory, which they share.
concVars == <<reqs, files>>

\* The locals of the one request the other actions are about.
requestVars == <<query, ny_living, inflation, pc, row, result, frame>>

vars == <<df, query, ny_living, inflation, pc, row, result, frame,
          form, error, charts, response,
          levers, target_annual, scen, gaps, tables,
          reqs, files>>

(***************************************************************************)
(* Exact arithmetic standing for Python float arithmetic.                  *)
(***************************************************************************)
Abs(i) == IF i < 0 THEN -i ELSE i

RECURSIVE GCD(_, _)
GCD(a, b) == IF b = 0 THEN a ELSE GCD(b, a % b)

Frac(n, d) ==
    LET s == IF d < 0 THEN -1 ELSE 1
        g == GCD(Abs(n), Abs(d))
    IN  [n |-> (s * n) \div g, d |-> (s * d) \div g]

R(i) == [n |-> i, d |-> 1]

RAdd(a, b) == Frac(a.n * b.d + b.n * a.d, a.d * b.d)
RSub(a, b) == Frac(a.n * b.d - b.n * a.d, a.d * b.d)
RMul(a, b) == Frac(a.n * b.n, a.d * b.d)
RDiv(a, b) == Frac(a.n * b.d, a.d * b.n)
RLt(a, b) == a.n * b.d < b.n * a.d
RLe(a, b) == a.n * b.d <= b.n * a.d

\* int(x) of a Python float: truncation toward zero.
IntTrunc(a) == IF a.n >= 0 THEN a.n \div a.d ELSE -((-a.n) \div a.d)

(***************************************************************************)
(* Cells and rows.                                                         *)
(***************************************************************************)
Absent == [k |-> "absent"]
NaN == [k |-> "nan"]
Bad == [k |-> "str"]
Num(r) == [k |-> "num", v |-> r]
Str(s) == [k |-> "text", s |-> s]

\* row.get(key, default) of a pandas Series: the default only when the key
\* is not in the row; an empty cell is returned as NaN.
Get(r, key, default) == IF r[key].k = "absent" THEN default ELSE r[key]

\* pd.isna(val) -> 0.0; float(val) raising -> 0.0; otherwise float(val).
safe_float(val) ==
    IF val.k = "nan" THEN R(0)
    ELSE IF val.k = "num" THEN val.v
    ELSE R(0)

\* Values a caller can pass where a number is expected, besides the cells
\* above and None: the empty string, text that parses as a number, and the
\* text "nan".
EmptyStr == [k |-> "empty"]
NumStr(r) == [k |-> "numstr", v |-> r]
NanStr == [k |-> "nanstr"]

\* float(x): [ok |-> FALSE] when it raises (TypeError on None, ValueError on
\* text that is no number), otherwise the float, which may be NaN.
PyFloat(x) ==
    CASE x.k \in {"num", "numstr"} -> [ok |-> TRUE, v |-> Num(x.v)]
      [] x.k \in {"nan", "nanstr"} -> [ok |-> TRUE, v |-> NaN]
      [] OTHER -> [ok |-> FALSE]

\* bool(x): None, "" and 0.0 are false; NaN and non-empty text are true.
Truthy(x) ==
    CASE x.k \in {"none", "empty"} -> FALSE
      [] x.k = "num" -> x.v # R(0)
      [] OTHER -> TRUE

\* a < b on floats: false when either is NaN.
FloatLt(a, b) == a.k = "num" /\ b.k = "num" /\ RLt(a.v, b.v)

\* The builtins min(a, b) and max(a, b): the first argument unless the
\* second is smaller (larger).
PyMin(a, b) == IF FloatLt(b, a) THEN b ELSE a
PyMax(a, b) == IF FloatLt(a, b) THEN b ELSE a

\* int(safe_float(row.get("Duration_Years", 1)) or 1)
DurationOf(r) ==
    LET x == safe_float(Get(r, "Duration_Years", Num(R(1))))
    IN  IntTrunc(IF x = R(0) THEN R(1) ELSE x)

(***************************************************************************)
(* compute_budget(row, ny_living)                                          *)
(***************************************************************************)
\* YearLine charging the visa fee in every year.
YearLineVisaEveryYear(y, c) ==
    LET direct_costs == RAdd(RAdd(RAdd(c.tuition_per_year, c.rent_annual),
                                  c.insurance_annual), c.visa_fee)
        living == RMul(c.ny_living, c.living_multiplier)
        year_total_usd == RAdd(direct_costs, living)
    IN  [year |-> y,
         tuition_usd |-> c.tuition_per_year,
         rent_usd |-> c.rent_annual,
         insurance_usd |-> c.insurance_annual,
         visa_usd |-> c.visa_fee,
         direct_usd |-> direct_costs,
         living_usd |-> living,
         total_usd |-> year_total_usd,
         total_local |-> RMul(year_total_usd, c.exchange_rate)]

\* YearLine leaving the insurance out of the direct costs.
YearLineNoInsurance(y, c) ==
    LET year_visa == IF y = 1 THEN c.visa_fee ELSE R(0)
        direct_costs == RAdd(RAdd(c.tuition_per_year, c.rent_annual), year_visa)
        living == RMul(c.ny_living, c.living_multiplier)
        year_total_usd == RAdd(direct_costs, living)
    IN  [year |-> y,
         tuition_usd |-> c.tuition_per_year,
         rent_usd |-> c.rent_annual,
         insurance_usd |-> c.insurance_annual,
         visa_usd |-> year_visa,
         direct_usd |-> direct_costs,
         living_usd |-> living,
         total_usd |-> year_total_usd,
         total_local |-> RMul(year_total_usd, c.exchange_rate)]

\* One pass of the loop body for year y; c holds the values read from the row.
YearLine(y, c) ==
    LET year_visa == IF y = 1 THEN c.visa_fee ELSE R(0)
        direct_costs == RAdd(RAdd(RAdd(c.tuition_per_year, c.rent_annual),
                                  c.insurance_annual), year_visa)
        living == RMul(c.ny_living, c.living_multiplier)
        year_total_usd == RAdd(direct_costs, living)
        year_total_local == RMul(year_total_usd, c.exchange_rate)
    IN  [year |-> y,
         tuition_usd |-> c.tuition_per_year,
         rent_usd |-> c.rent_annual,
         insurance_usd |-> c.insurance_annual,
         visa_usd |-> year_visa,
         direct_usd |-> direct_costs,
         living_usd |-> living,
         total_usd |-> year_total_usd,
         total_local |-> year_total_local]

\* The loop over range(1, duration): one year short.
RECURSIVE BudgetLoopOffByOne(_, _, _, _)
BudgetLoopOffByOne(y, duration, acc, c) ==
    IF y >= duration THEN acc
    ELSE BudgetLoopOffByOne(y + 1, duration,
                            [years |-> Append(acc.years, YearLine(y, c)),
                             total_usd_program |->
                                 RAdd(acc.total_usd_program,
                                      YearLine(y, c).total_usd),
                             total_local_program |->
                                 RAdd(acc.total_local_program,
                                      YearLine(y, c).total_local)],
                            c)

\* for y in range(1, duration + 1): append the line and add it to the totals.
RECURSIVE BudgetLoop(_, _, _, _)
BudgetLoop(y, duration, acc, c) ==
    IF y > duration THEN acc
    ELSE BudgetLoop(y + 1, duration,
                    [years |-> Append(acc.years, YearLine(y, c)),
                     total_usd_program |->
                         RAdd(acc.total_usd_program, YearLine(y, c).total_usd),
                     total_local_program |->
                         RAdd(acc.total_local_program,
                              YearLine(y, c).total_local)],
                    c)

\* total / duration if duration > 0 else 0.0
AvgYear(total, duration) ==
    IF duration > 0 THEN RDiv(total, R(duration)) ELSE R(0)

\* The monthly average taken over the years instead of the months.
AvgMonthPerYear(total, duration) ==
    IF duration > 0 THEN RDiv(total, R(duration)) ELSE R(0)

\* total / (duration * 12.0) if duration > 0 else 0.0
AvgMonth(total, duration) ==
    IF duration > 0 THEN RDiv(total, RMul(R(duration), R(12))) ELSE R(0)

compute_budget(r, ny) ==
    LET duration == DurationOf(r)
        tuition_per_year == safe_float(Get(r, "Tuition_USD", Num(R(0))))
        rent_month == safe_float(Get(r, "Rent_USD", Num(R(0))))
        rent_annual == RMul(rent_month, R(12))
        insurance_annual == safe_float(Get(r, "Insurance_USD", Num(R(0))))
        visa_fee == safe_float(Get(r, "Visa_Fee_USD", Num(R(0))))
        living_index == safe_float(Get(r, "Living_Cost_Index", Num(R(100))))
        living_multiplier == RDiv(living_index, R(100))
        exchange_rate == safe_float(Get(r, "Exchange_Rate", Num(R(1))))
        c == [tuition_per_year |-> tuition_per_year,
              rent_annual |-> rent_annual,
              insurance_annual |-> insurance_annual,
              visa_fee |-> visa_fee,
              living_multiplier |-> living_multiplier,
              exchange_rate |-> exchange_rate,
              ny_living |-> ny]
        tot == BudgetLoop(1, duration,
                          [years |-> <<>>, total_usd_program |-> R(0),
                           total_local_program |-> R(0)], c)
    IN  [kind |-> "budget",
         duration_years |-> duration,
         living_multiplier |-> living_multiplier,
         exchange_rate |-> exchange_rate,
         ny_baseline |-> ny,
         years |-> tot.years,
         program_total_usd |-> tot.total_usd_program,
         program_total_local |-> tot.total_local_program,
         avg_year_usd |-> AvgYear(tot.total_usd_program, duration),
         avg_month_usd |-> AvgMonth(tot.total_usd_program, duration),
         avg_year_local |-> AvgYear(tot.total_local_program, duration),
         avg_month_local |-> AvgMonth(tot.total_local_program, duration)]

\* The parameters compute_budget declares.
compute_budget_params == {"row", "ny_living"}

\* A Python call compute_budget(row, ny, **kwargs): a keyword that is not a
\* parameter of the function raises TypeError before the body runs.
call_compute_budget(r, ny, kwargs) ==
    IF DOMAIN kwargs \subseteq compute_budget_params
    THEN compute_budget(r, ny)
    ELSE [kind |-> "raised", error |-> "TypeError"]

(***************************************************************************)
(* find_university(df, query)                                              *)
(*                                                                         *)
(* A DataFrame is [columns, rows]: rows is the sequence of rows in file    *)
(* order, each a record over every column name with Absent cells for the   *)
(* columns the frame does not have, plus "index", its index label.         *)
(***************************************************************************)
None == [k |-> "none"]
Found(r) == [k |-> "row", r |-> r]

\* str.lower() on the letters of the alphabet in use.
Lower(ch) ==
    CASE ch = "A" -> "a"
      [] ch = "N" -> "n"
      [] ch = "B" -> "b"
      [] OTHER -> ch

\* One pattern character against one subject character under re.IGNORECASE:
\* "." is the regular-expression wildcard, any other character is itself.
AtomMatches(p, ch) == p = "." \/ Lower(p) = Lower(ch)

\* re.search(pat, s, flags=re.IGNORECASE) is not None, for patterns made of
\* literal characters and ".".
ReSearch(pat, s) ==
    \E i \in 0..(Len(s) - Len(pat)) :
        \A j \in 1..Len(pat) : AtomMatches(pat[j], s[i + j])

\* Series.astype(str): str() of every cell, so an empty cell becomes "nan".
AsTypeStr(cell) == IF cell.k = "nan" THEN <<"n", "a", "n">> ELSE cell.s

\* df["University"].astype(str).str.contains(query, case=False, na=False):
\* the pattern is a regular expression (regex=True is the default).
Mask(d, q) ==
    [i \in 1..Len(d.rows) |-> ReSearch(q, AsTypeStr(d.rows[i]["University"]))]

find_university(d, q) ==
    IF "University" \notin d.columns THEN None
    ELSE LET m == Mask(d, q)
             matches == {i \in 1..Len(d.rows) : m[i]}
         IN  IF matches = {} THEN None
             ELSE Found(d.rows[CHOOSE i \in matches :
                                   \A j \in matches : i <= j])

(***************************************************************************)
(* build_policy_frame(df, ny_living)                                       *)
(***************************************************************************)
RMax(a, b) == IF RLt(a, b) THEN b ELSE a
RMin(a, b) == IF RLt(b, a) THEN b ELSE a

\* Series.min() / Series.max() of a non-empty sequence of numbers.
RECURSIVE SeqMin(_)
SeqMin(s) == IF Len(s) = 1 THEN s[1] ELSE RMin(s[1], SeqMin(Tail(s)))

RECURSIVE SeqMax(_)
SeqMax(s) == IF Len(s) = 1 THEN s[1] ELSE RMax(s[1], SeqMax(Tail(s)))

\* The numbers of s in non-decreasing order.
RECURSIVE Insert(_, _)
Insert(x, s) ==
    IF s = <<>> THEN <<x>>
    ELSE IF RLe(x, s[1]) THEN <<x>> \o s
    ELSE <<s[1]>> \o Insert(x, Tail(s))

RECURSIVE SortNums(_)
SortNums(s) == IF s = <<>> THEN <<>> ELSE Insert(s[1], SortNums(Tail(s)))

\* Series.median() of a non-empty sequence of numbers.
Median(s) ==
    LET t == SortNums(s)
        n == Len(t)
    IN  IF n % 2 = 1 THEN t[(n + 1) \div 2]
        ELSE RDiv(RAdd(t[n \div 2], t[n \div 2 + 1]), R(2))

\* row.get(key): None when the key is not in the row.
GetOrNone(r, key) == IF r[key].k = "absent" THEN None ELSE r[key]

\* The loop body of build_policy_frame: the record appended for one row.
\* The whole visa fee charged to every year.
VisaChargedOnce(visa_fee, duration) == visa_fee

\* visa_fee / max(duration, 1)
VisaAmortised(visa_fee, duration) ==
    RDiv(visa_fee, R(IF duration > 1 THEN duration ELSE 1))

PolicyRecord(r, ny) ==
    LET duration == DurationOf(r)
        tuition == safe_float(Get(r, "Tuition_USD", Num(R(0))))
        rent_month == safe_float(Get(r, "Rent_USD", Num(R(0))))
        insurance == safe_float(Get(r, "Insurance_USD", Num(R(0))))
        visa_fee == safe_float(Get(r, "Visa_Fee_USD", Num(R(0))))
        living_index == safe_float(Get(r, "Living_Cost_Index", Num(R(100))))
        exchange_rate == safe_float(Get(r, "Exchange_Rate", Num(R(1))))
        direct_annual ==
            RAdd(RAdd(RAdd(tuition, RMul(rent_month, R(12))), insurance),
                 VisaAmortised(visa_fee, duration))
        indirect_annual == RMul(ny, RDiv(living_index, R(100)))
        total_annual == RAdd(direct_annual, indirect_annual)
    IN  [Country |-> GetOrNone(r, "Country"),
         University |-> GetOrNone(r, "University"),
         Level |-> GetOrNone(r, "Level"),
         Duration_Years |-> duration,
         Tuition_USD |-> tuition,
         Rent_USD |-> rent_month,
         Insurance_USD |-> insurance,
         Visa_Fee_USD |-> visa_fee,
         Living_Cost_Index |-> living_index,
         Exchange_Rate |-> exchange_rate,
         direct_annual_usd |-> direct_annual,
         indirect_annual_usd |-> indirect_annual,
         total_annual_usd |-> total_annual]

\* The normalisation turned round: the dearest row scores highest.
AffordabilityInverted(total, min_total, max_total) ==
    IF RLt(min_total, max_total)
    THEN RDiv(RMul(R(100), RSub(total, min_total)),
              RSub(max_total, min_total))
    ELSE R(50)

\* The min-max normalisation of one total against the frame's bounds.
AffordabilityIndex(total, min_total, max_total) ==
    IF RLt(min_total, max_total)
    THEN RDiv(RMul(R(100), RSub(max_total, total)),
              RSub(max_total, min_total))
    ELSE R(50)

Column(f, col) == [i \in 1..Len(f) |-> f[i][col]]

\* The total_annual_usd of the rows of f, from row i on, whose Level is key.
RECURSIVE GroupTotals(_, _, _)
GroupTotals(f, i, key) ==
    IF i > Len(f) THEN <<>>
    ELSE (IF f[i].Level = key THEN <<f[i].total_annual_usd>> ELSE <<>>)
         \o GroupTotals(f, i + 1, key)

\* frame.groupby("Level")["total_annual_usd"].transform("median"): rows
\* whose key is missing (None/NaN) are in no group and get NaN.
LevelMedian(f, i) ==
    IF f[i].Level.k \in {"none", "nan"} THEN NaN
    ELSE Num(Median(GroupTotals(f, 1, f[i].Level)))

\* total_annual_usd - level_median, NaN where the median is NaN.
PolicyGap(total, level_median) ==
    IF level_median.k = "nan" THEN NaN ELSE Num(RSub(total, level_median.v))

\* The columns of a non-empty policy frame.
PolicyColumns ==
    {"Country", "City", "University", "Program", "Level", "Duration_Years", "Tuition_USD",
     "Rent_USD", "Insurance_USD", "Visa_Fee_USD", "Living_Cost_Index",
     "Exchange_Rate", "direct_annual_usd", "indirect_annual_usd",
     "total_annual_usd", "affordability_index", "policy_gap_usd"}

\* pd.DataFrame.from_records([]) has no rows and no columns; it is returned
\* as it is.  City and Program are carried through unchanged and are left
\* out of the rows.
build_policy_frame(d, ny) ==
    LET records == [i \in 1..Len(d.rows) |-> PolicyRecord(d.rows[i], ny)]
    IN  IF records = <<>> THEN [k |-> "frame", columns |-> {}, rows |-> <<>>]
        ELSE LET totals == Column(records, "total_annual_usd")
                 min_total == SeqMin(totals)
                 max_total == SeqMax(totals)
             IN  [k |-> "frame",
                  columns |-> PolicyColumns,
                  rows |->
                    [i \in 1..Len(records) |->
                       [Country |-> records[i].Country,
                        University |-> records[i].University,
                        Level |-> records[i].Level,
                        Duration_Years |-> records[i].Duration_Years,
                        Tuition_USD |-> records[i].Tuition_USD,
                        Rent_USD |-> records[i].Rent_USD,
                        Insurance_USD |-> records[i].Insurance_USD,
                        Visa_Fee_USD |-> records[i].Visa_Fee_USD,
                        Living_Cost_Index |-> records[i].Living_Cost_Index,
                        Exchange_Rate |-> records[i].Exchange_Rate,
                        direct_annual_usd |-> records[i].direct_annual_usd,
                        indirect_annual_usd |->
                            records[i].indirect_annual_usd,
                        total_annual_usd |-> records[i].total_annual_usd,
                        affordability_index |->
                            AffordabilityIndex(records[i].total_annual_usd,
                                               min_total, max_total),
                        policy_gap_usd |->
                            PolicyGap(records[i].total_annual_usd,
                                      LevelMedian(records, i))]]]

\* DataFrame.empty: no rows or no columns.
NeverEmpty(f) == FALSE
IsEmpty(f) == f.rows = <<>> \/ f.columns = {}

Raised(exception) == [k |-> "raised", error |-> exception]

\* The record r with the fields of ext added or replaced.
Extend(r, ext) ==
    [c \in DOMAIN r \cup DOMAIN ext |->
        IF c \in DOMAIN ext THEN ext[c] ELSE r[c]]

\* max(0.0, min(1.0, float(x or 0.0))), 0.0 when float() raises.
Lever(x) ==
    LET f == PyFloat(IF Truthy(x) THEN x ELSE Num(R(0)))
    IN  IF ~f.ok THEN R(0)
        ELSE PyMax(Num(R(0)), PyMin(Num(R(1)), f.v)).v

\* The columns apply_policy_scenario reads.
ScenarioInputs ==
    {"Duration_Years", "Tuition_USD", "Rent_USD", "Insurance_USD",
     "Visa_Fee_USD", "indirect_annual_usd"}

ScenarioColumns ==
    {"scenario_tuition_annual_usd", "scenario_direct_annual_usd",
     "scenario_indirect_annual_usd", "scenario_total_annual_usd",
     "scenario_affordability_index"}

\* The scenario costs of one row under the two levers.
ScenarioCosts(r, tuition_cut, living_subsidy) ==
    LET duration == IF r.Duration_Years = 0 THEN 1 ELSE r.Duration_Years
        tuition_after == RMul(r.Tuition_USD, RSub(R(1), tuition_cut))
        direct_after ==
            RAdd(RAdd(RAdd(tuition_after, RMul(r.Rent_USD, R(12))),
                      r.Insurance_USD),
                 RDiv(r.Visa_Fee_USD, R(duration)))
        indirect_after ==
            RMul(r.indirect_annual_usd, RSub(R(1), living_subsidy))
    IN  [scenario_tuition_annual_usd |-> tuition_after,
         scenario_direct_annual_usd |-> direct_after,
         scenario_indirect_annual_usd |-> indirect_after,
         scenario_total_annual_usd |-> RAdd(direct_after, indirect_after)]

\* The index normalised against the baseline totals instead.
ScenarioAffordabilityBaselineBounds(s, i) ==
    AffordabilityIndex(s[i].scenario_total_annual_usd,
                       SeqMin(Column(s, "total_annual_usd")),
                       SeqMax(Column(s, "total_annual_usd")))

\* scenario_affordability_index of row i: the scenario total normalised
\* against the least and greatest scenario total.
ScenarioAffordability(s, i) ==
    AffordabilityIndex(s[i].scenario_total_annual_usd,
                       SeqMin(Column(s, "scenario_total_annual_usd")),
                       SeqMax(Column(s, "scenario_total_annual_usd")))

\* apply_policy_scenario(frame, tuition_cut, living_subsidy): a copy of the
\* frame with the scenario_* columns; a frame without a column that is read
\* raises KeyError.
apply_policy_scenario(f, tuition_cut, living_subsidy) ==
    IF IsEmpty(f) THEN f
    ELSE IF ~(ScenarioInputs \subseteq f.columns) THEN Raised("KeyError")
    ELSE LET s == [i \in 1..Len(f.rows) |->
                     Extend(f.rows[i],
                            ScenarioCosts(f.rows[i], Lever(tuition_cut),
                                          Lever(living_subsidy)))]
         IN  [k |-> "frame",
              columns |-> f.columns \cup ScenarioColumns,
              rows |-> [i \in 1..Len(s) |->
                          Extend(s[i],
                                 [scenario_affordability_index |->
                                      ScenarioAffordability(s, i)])]]

(***************************************************************************)
(* Sorting and grouping of frames.                                         *)
(***************************************************************************)
\* A column value as a cell: the frame's numeric columns hold numbers, the
\* computed gap columns hold cells that may be NaN.
AsCell(v) == IF "k" \in DOMAIN v THEN v ELSE Num(v)

\* a sorts strictly before b; NaN sorts after every number
\* (na_position="last").
KeyBefore(a, b, ascending) ==
    IF a.k = "num" /\ b.k = "num"
    THEN IF ascending THEN RLt(a.v, b.v) ELSE RLt(b.v, a.v)
    ELSE a.k = "num" /\ b.k # "num"

\* x put into the sorted s, after the rows it does not sort before.
RECURSIVE InsertBy(_, _, _, _)
InsertBy(x, s, col, ascending) ==
    IF s = <<>> THEN <<x>>
    ELSE IF KeyBefore(AsCell(x[col]), AsCell(s[1][col]), ascending)
         THEN <<x>> \o s
         ELSE <<s[1]>> \o InsertBy(x, Tail(s), col, ascending)

\* The rows left in the order they have.
Unsorted(s, col, ascending) == s

\* DataFrame.sort_values(col, ascending=...): the rows ordered by col, rows
\* with equal keys in their former order (the order of ties is not fixed by
\* the default sort; nothing here depends on it).
RECURSIVE SortBy(_, _, _)
SortBy(s, col, ascending) ==
    IF s = <<>> THEN <<>>
    ELSE InsertBy(s[Len(s)], SortBy(SubSeq(s, 1, Len(s) - 1), col, ascending),
                  col, ascending)

\* The rows restricted to the given columns, with their index labels.
Project(rows, cols) ==
    [i \in 1..Len(rows) |->
        [c \in cols \cup {"index"} |->
            IF c = "index" THEN i - 1 ELSE rows[i][c]]]

\* The code-point order of the characters of the model.
CodePoints == <<".", "A", "B", "N", "a", "b", "n">>
Ord(ch) == CHOOSE i \in 1..Len(CodePoints) : CodePoints[i] = ch

\* s < t on strings.
RECURSIVE TextLt(_, _)
TextLt(s, t) ==
    IF t = <<>> THEN FALSE
    ELSE IF s = <<>> THEN TRUE
    ELSE IF Ord(s[1]) # Ord(t[1]) THEN Ord(s[1]) < Ord(t[1])
    ELSE TextLt(Tail(s), Tail(t))

\* a <= b on tuples of text cells.
RECURSIVE KeyLe(_, _)
KeyLe(a, b) ==
    IF a = <<>> THEN TRUE
    ELSE IF a[1].s # b[1].s THEN TextLt(a[1].s, b[1].s)
    ELSE KeyLe(Tail(a), Tail(b))

\* groupby(cols): a row whose key has a missing part is in no group.
KeyOf(r, cols) == [j \in 1..Len(cols) |-> r[cols[j]]]
HasKey(r, cols) == \A j \in 1..Len(cols) : r[cols[j]].k = "text"
GroupKeys(rows, cols) ==
    {KeyOf(rows[i], cols) :
        i \in {j \in 1..Len(rows) : HasKey(rows[j], cols)}}
Members(rows, cols, key) ==
    SelectSeq(rows, LAMBDA r : HasKey(r, cols) /\ KeyOf(r, cols) = key)

\* The group keys in sorted order (sort=True).
RECURSIVE SortedKeys(_)
SortedKeys(S) ==
    IF S = {} THEN <<>>
    ELSE LET m == CHOOSE k \in S : \A o \in S : KeyLe(k, o)
         IN  <<m>> \o SortedKeys(S \ {m})

RECURSIVE Sum(_)
Sum(s) == IF s = <<>> THEN R(0) ELSE RAdd(s[1], Sum(Tail(s)))

\* Series.mean(): NaN entries are skipped; NaN when nothing is left.
Mean(cells) ==
    LET nums == SelectSeq(cells, LAMBDA c : c.k = "num")
    IN  IF nums = <<>> THEN NaN
        ELSE Num(RDiv(Sum([i \in 1..Len(nums) |-> nums[i].v]),
                      R(Len(nums))))

\* The mean of a boolean column: the share of TRUE.
Share(flags) ==
    Frac(Cardinality({i \in 1..Len(flags) : flags[i]}), Len(flags))

CellColumn(rows, col) == [i \in 1..Len(rows) |-> AsCell(rows[i][col])]

(***************************************************************************)
(* compute_target_gap_tables and summarize_policy_insights                 *)
(***************************************************************************)
\* target = float(target_annual), the median of the total column when
\* float() raises.  The float may be NaN.
TargetOf(target, totals) ==
    LET t == PyFloat(target)
    IN  IF t.ok THEN t.v ELSE Num(Median(totals))

\* The gap with its sign turned round.
GapReversed(total, target) ==
    IF target.k = "nan" THEN NaN ELSE Num(RSub(target.v, total))

\* total_series - target
GapToTarget(total, target) ==
    IF target.k = "nan" THEN NaN ELSE Num(RSub(total, target.v))

\* work[col] / total_series.replace(0, 1e-9)
ShareOf(part, total) ==
    RDiv(part, IF total = R(0) THEN Frac(1, 1000000000) ELSE total)

\* The function's frame work: the rows with gap_to_target_usd,
\* above_target and, for the cost columns the frame has, the shares.
GapWork(f, target, total_col, tuition_col, indirect_col) ==
    [i \in 1..Len(f.rows) |->
        LET r == f.rows[i]
            gap == GapToTarget(r[total_col], target)
            a == Extend(r, [index |-> i - 1,
                            gap_to_target_usd |-> gap,
                            above_target |->
                                FloatLt(Num(R(0)), gap)])
            b == IF tuition_col \in f.columns
                 THEN Extend(a, [tuition_share |->
                                    ShareOf(r[tuition_col], r[total_col])])
                 ELSE a
        IN  IF indirect_col \in f.columns
            THEN Extend(b, [living_share |->
                               ShareOf(r[indirect_col], r[total_col])])
            ELSE b]

\* One row of by_country_level: the aggregates of the group of key.
GapGroup(work, key) ==
    LET g == Members(work, <<"Country", "Level">>, key)
        a == [Country |-> key[1], Level |-> key[2],
              avg_gap_to_target_usd |->
                  Mean(CellColumn(g, "gap_to_target_usd")),
              share_above_target |->
                  Share([i \in 1..Len(g) |-> g[i].above_target])]
        b == IF "tuition_share" \in DOMAIN g[1]
             THEN Extend(a, [mean_tuition_share |->
                                Mean(CellColumn(g, "tuition_share"))])
             ELSE a
    IN  IF "living_share" \in DOMAIN g[1]
        THEN Extend(b, [mean_living_share |->
                           Mean(CellColumn(g, "living_share"))])
        ELSE b

Tables(t) == Extend([k |-> "tables"], t)

\* compute_target_gap_tables(frame, target_annual, total_col=...,
\* tuition_col=..., indirect_col=...).  work is the function's local frame,
\* kept in the result so that its above_target column can be observed.
compute_target_gap_tables(f, target, total_col, tuition_col, indirect_col) ==
    IF IsEmpty(f) THEN Tables([programs |-> f, by_country_level |-> f])
    ELSE IF ~({"Country", "University", "Program", "Level", total_col}
                  \subseteq f.columns)
    THEN Raised("KeyError")
    ELSE LET work == GapWork(f, TargetOf(target,
                                         Column(f.rows, total_col)),
                             total_col, tuition_col, indirect_col)
             program_cols == {"Country", "University", "Level", total_col,
                              "gap_to_target_usd"}
             keys == SortedKeys(GroupKeys(work, <<"Country", "Level">>))
         IN  Tables(
               [work |-> work,
                programs |->
                  [k |-> "frame",
                   columns |-> program_cols \cup {"Program"},
                   rows |-> SortBy(Project(work, program_cols),
                                   "gap_to_target_usd", FALSE)],
                by_country_level |->
                  [k |-> "frame",
                   columns |->
                     {"Country", "Level", "avg_gap_to_target_usd",
                      "share_above_target"}
                     \cup (IF tuition_col \in f.columns
                           THEN {"mean_tuition_share"} ELSE {})
                     \cup (IF indirect_col \in f.columns
                           THEN {"mean_living_share"} ELSE {}),
                   rows |->
                     SortBy([j \in 1..Len(keys) |-> GapGroup(work, keys[j])],
                            "avg_gap_to_target_usd", FALSE)]])

cols_base ==
    {"Country", "City", "University", "Program", "Level", "Duration_Years",
     "direct_annual_usd", "indirect_annual_usd", "total_annual_usd",
     "affordability_index", "policy_gap_usd"}

\* One row of policy_gap: the aggregates of a (Country, Level) group.
PolicyGapGroup(rows, key) ==
    LET g == Members(rows, <<"Country", "Level">>, key)
    IN  [Country |-> key[1], Level |-> key[2],
         avg_total_annual_usd |-> Mean(CellColumn(g, "total_annual_usd")),
         avg_affordability_index |->
             Mean(CellColumn(g, "affordability_index")),
         share_above_median |->
             Share([i \in 1..Len(g) |->
                       FloatLt(Num(R(0)), g[i].policy_gap_usd)])]

\* One row of comparative: the least, greatest and mean total of a Country.
ComparativeGroup(rows, key) ==
    LET g == Members(rows, <<"Country">>, key)
        totals == Column(g, "total_annual_usd")
    IN  [Country |-> key[1],
         min_total_annual_usd |-> SeqMin(totals),
         max_total_annual_usd |-> SeqMax(totals),
         mean_total_annual_usd |-> RDiv(Sum(totals), R(Len(totals)))]

\* summarize_policy_insights(frame): the four tables.  City and Program are
\* columns of the tables and left out of their rows, as in the frame.
summarize_policy_insights(f) ==
    IF IsEmpty(f)
    THEN Tables([total_annual |-> f, affordability |-> f, policy_gap |-> f,
                 comparative |-> f])
    ELSE IF ~(cols_base \subseteq f.columns) THEN Raised("KeyError")
    ELSE LET base == Project(f.rows, cols_base \ {"City", "Program"})
             pairs == SortedKeys(GroupKeys(f.rows, <<"Country", "Level">>))
             countries == SortedKeys(GroupKeys(f.rows, <<"Country">>))
         IN  Tables(
               [total_annual |->
                  [k |-> "frame", columns |-> cols_base,
                   rows |-> SortBy(base, "total_annual_usd", TRUE)],
                affordability |->
                  [k |-> "frame", columns |-> cols_base,
                   rows |-> SortBy(base, "affordability_index", FALSE)],
                policy_gap |->
                  [k |-> "frame",
                   columns |-> {"Country", "Level", "avg_total_annual_usd",
                                "avg_affordability_index",
                                "share_above_median"},
                   rows |-> [j \in 1..Len(pairs) |->
                               PolicyGapGroup(f.rows, pairs[j])]],
                comparative |->
                  [k |-> "frame",
                   columns |-> {"Country", "min_total_annual_usd",
                                "max_total_annual_usd",
                                "mean_total_annual_usd"},
                   rows |->
                     SortBy([j \in 1..Len(countries) |->
                                ComparativeGroup(f.rows, countries[j])],
                            "mean_total_annual_usd", TRUE)]])

(***************************************************************************)
(* Bounded inputs.                                                         *)
(***************************************************************************)
MaxYears == 3
MaxRows == 3

ColumnNames ==
    {"University", "Country", "Level", "Duration_Years", "Tuition_USD",
     "Rent_USD", "Insurance_USD", "Visa_Fee_USD", "Living_Cost_Index",
     "Exchange_Rate"}

MkRow(univ, country, level, dur, tui, rent, ins, visa, lci, er) ==
    [index |-> 0, University |-> univ, Country |-> country, Level |-> level,
     Duration_Years |-> dur, Tuition_USD |-> tui, Rent_USD |-> rent,
     Insurance_USD |-> ins, Visa_Fee_USD |-> visa,
     Living_Cost_Index |-> lci, Exchange_Rate |-> er]

\* pd.read_csv: the rows in file order with index labels 0, 1, ...; the
\* frame has the columns that have a cell in the file.
ReadCsv(cols, rs) ==
    [columns |-> cols,
     rows |-> [i \in 1..Len(rs) |->
                 [c \in DOMAIN rs[i] |->
                    IF c = "index" THEN i - 1
                    ELSE IF c \in cols THEN rs[i][c] ELSE Absent]]]

ColumnsOf(r) == {c \in ColumnNames : r[c].k # "absent"}

RECURSIVE SeqsUpTo(_, _)
SeqsUpTo(S, n) ==
    IF n = 0 THEN {<<>>}
    ELSE LET shorter == SeqsUpTo(S, n - 1)
         IN  shorter \cup {Append(t, x) : t \in {u \in shorter : Len(u) = n - 1},
                                          x \in S}

TestU == Str(<<"a", "b">>)
LevelA == Str(<<"a">>)
LevelB == Str(<<"b">>)

DurationCells ==
    {Absent, NaN, Bad, Num(R(-2)), Num(R(0)), Num(Frac(1, 2)), Num(Frac(5, 2))}
        \cup {Num(R(d)) : d \in 1..MaxYears}
CostCells(v) == {Absent, NaN, Bad, Num(R(v))}
IndexCells == {Absent, NaN, Bad, Num(R(120))}
RateCells == {Absent, NaN, Bad, Num(Frac(11, 10))}

\* One-row datasets whose cost cells range over every kind of cell.
BudgetDatasets ==
    {ReadCsv(ColumnsOf(r), <<r>>) :
        r \in {MkRow(TestU, LevelA, LevelA, dur, tui, rent, ins, visa, lci, er) :
                 dur \in DurationCells, tui \in CostCells(10000),
                 rent \in CostCells(500), ins \in CostCells(1000),
                 visa \in CostCells(200), lci \in IndexCells,
                 er \in RateCells}}

UniversityNames ==
    {Str(<<"a">>), Str(<<"A", "n">>), Str(<<"b", "a">>), Str(<<"n", "b">>)}
UniversityCells == UniversityNames \cup {NaN}

Queries ==
    {<<>>, <<"a">>, <<"A", "N">>, <<"n", "a", "n">>, <<"a", ".">>, <<"b">>,
     <<"b", "b">>}

\* Datasets that differ in their University cells only, with or without the
\* University column.
FindDatasetsOver(cells) ==
    {ReadCsv(cols, rs) :
        cols \in {ColumnNames, ColumnNames \ {"University"}},
        rs \in SeqsUpTo({MkRow(u, LevelA, LevelA, Num(R(2)), Num(R(10000)),
                               Num(R(500)), Num(R(1000)), Num(R(200)),
                               Num(R(120)), Num(Frac(11, 10))) :
                            u \in cells}, MaxRows)}
FindDatasets == FindDatasetsOver(UniversityCells)

\* Datasets whose rows differ in tuition, duration and level.
PolicyDatasets ==
    {ReadCsv(ColumnNames, rs) :
        rs \in SeqsUpTo({MkRow(TestU, LevelA, level, dur, tui, Num(R(500)),
                               Num(R(1000)), Num(R(200)), Num(R(120)),
                               Num(Frac(11, 10))) :
                            level \in {NaN, LevelA, LevelB},
                            dur \in {Num(R(2)), Num(R(0))},
                            tui \in {Num(R(10000)), Num(R(20000))}},
                        MaxRows)}

NyLivings == {R(24000)}
\* The inflation percentages a form can carry, as fractions.
InflationRates == {R(0), Frac(3, 100)}

\* The datasets for the scenario: durations that are positive, zero,
\* negative and missing, two tuitions.
ScenarioDatasets ==
    {ReadCsv(ColumnNames, rs) :
        rs \in SeqsUpTo({MkRow(TestU, LevelA, LevelA, c[1], c[2], Num(R(500)),
                               Num(R(1000)), Num(R(200)), Num(R(120)),
                               Num(Frac(11, 10))) :
                            c \in {<<Num(R(2)), Num(R(10000))>>,
                                   <<Num(R(2)), Num(R(20000))>>,
                                   <<Num(R(0)), Num(R(10000))>>,
                                   <<Num(R(-2)), Num(R(20000))>>,
                                   <<NaN, Num(R(10000))>>}},
                        MaxRows)}

\* The datasets for the tables: two countries and a missing one, two levels
\* and a missing one, two tuitions.
TableDatasets ==
    {ReadCsv(ColumnNames, rs) :
        rs \in SeqsUpTo({MkRow(TestU, c[1], c[2], Num(R(2)), c[3],
                               Num(R(500)), Num(R(1000)), Num(R(200)),
                               Num(R(120)), Num(Frac(11, 10))) :
                            c \in {<<LevelA, LevelA, Num(R(10000))>>,
                                   <<LevelA, LevelA, Num(R(20000))>>,
                                   <<LevelB, LevelA, Num(R(10000))>>,
                                   <<LevelB, LevelB, Num(R(20000))>>,
                                   <<NaN, LevelA, Num(R(20000))>>,
                                   <<LevelA, NaN, Num(R(10000))>>}},
                        MaxRows)}

\* The levers the tables are computed under.
TableLevers == {Num(R(0)), Num(Frac(1, 2))}

\* What a caller can pass as the target.
TargetValues ==
    {None, EmptyStr, Bad, NaN, Num(R(50000)), NumStr(R(40000)), Num(R(0))}

\* Records with non-negative cost fields: ordinary ones of two and of zero
\* years, and one of -2 years whose only cost is the visa fee.
LeverDatasets ==
    {ReadCsv(ColumnNames, rs) :
        rs \in SeqsUpTo({MkRow(TestU, LevelA, LevelA, Num(R(2)),
                               Num(R(10000)), Num(R(500)), Num(R(1000)),
                               Num(R(200)), Num(R(120)), Num(Frac(11, 10))),
                         MkRow(TestU, LevelA, LevelA, Num(R(0)),
                               Num(R(20000)), Num(R(500)), Num(R(0)),
                               Num(R(200)), Num(R(100)), Num(Frac(11, 10))),
                         MkRow(TestU, LevelA, LevelA, Num(R(-2)),
                               Num(R(0)), Num(R(0)), Num(R(0)),
                               Num(R(200)), Num(R(0)), Num(Frac(11, 10)))},
                        MaxRows)}

\* Levers in [0, 1].
UnitLevers == {Num(R(0)), Num(Frac(1, 2)), Num(R(1))}

\* What a caller can pass as a lever.
LeverValues ==
    {None, EmptyStr, Bad, NaN, Num(Frac(-1, 2)), Num(R(0)), Num(Frac(1, 2)),
     Num(R(2))}

NotCalled == [k |-> "notcalled"]
NoResult == [kind |-> "none"]

(***************************************************************************)
(* The state machine: the command line tool (main), the /budget-planning   *)
(* view and the policy frame of /policy-analysis.                          *)
(***************************************************************************)
InitWith(datasets, queries) ==
    /\ df \in datasets
    /\ query \in queries
    /\ ny_living \in NyLivings
    /\ inflation \in InflationRates
    /\ pc = "start"
    /\ row = NotCalled
    /\ result = NoResult
    /\ frame = NotCalled
    /\ form = NotCalled
    /\ error = None
    /\ charts = None
    /\ response = "none"
    /\ levers = NotCalled
    /\ target_annual = NotCalled
    /\ scen = NotCalled
    /\ gaps = NotCalled
    /\ tables = NotCalled
    /\ reqs = <<>>
    /\ files = <<>>

\* main(): row = find_university(df, args.university); return if None.
MainLookup ==
    /\ pc = "start"
    /\ row' = find_university(df, query)
    /\ pc' = IF row'.k = "none" THEN "cli_done" ELSE "cli_row"
    /\ UNCHANGED <<df, query, ny_living, inflation, result, frame>>
    /\ UNCHANGED <<webVars, policyVars>>
    /\ UNCHANGED concVars

\* main(): result = compute_budget(row, args.ny_living)
MainCompute ==
    /\ pc = "cli_row"
    /\ result' = call_compute_budget(row.r, ny_living, <<>>)
    /\ pc' = "cli_done"
    /\ UNCHANGED <<df, query, ny_living, inflation, row, frame>>
    /\ UNCHANGED <<webVars, policyVars>>
    /\ UNCHANGED concVars

DEFAULT_NY_BASELINE == R(26000)
DEFAULT_INFLATION == Frac(3, 100)

Message(text) == [k |-> "msg", text |-> text]
NyLivingError == Message("Please enter a valid non-negative number")
InflationError == Message("Please enter a valid non-negative percentage")
NotFoundError == Message("Selected university was not found in the dataset.")

\* try: v = float(raw); if v < 0: raise ValueError / except: error.
\* The variable keeps the value float() gave even when it is rejected.
ParseNonNegative(raw) ==
    LET f == PyFloat(raw)
    IN  IF ~f.ok THEN [ok |-> FALSE, v |-> None]
        ELSE [ok |-> ~FloatLt(f.v, Num(R(0))), v |-> f.v.v]

\* budget_planning_view, a GET request: the form is rendered, nothing is
\* computed.
ViewGet ==
    /\ pc = "request"
    /\ form.method = "GET"
    /\ response' = "page"
    /\ pc' = "web_done"
    /\ UNCHANGED <<df, query, ny_living, inflation, row, result, frame>>
    /\ UNCHANGED <<form, error, charts, policyVars>>
    /\ UNCHANGED concVars

\* budget_planning_view, a POST request: ny_living and then, if that gave no
\* error, the inflation percentage are parsed; a blank field takes its
\* default.  The CSV file exists (df is its content); the university field
\* of the form is query.
ViewParse ==
    /\ pc = "request"
    /\ form.method = "POST"
    /\ LET ny == IF form.ny_living.k = "empty"
                 THEN [ok |-> TRUE, v |-> DEFAULT_NY_BASELINE]
                 ELSE ParseNonNegative(form.ny_living)
           pct == IF form.inflation.k = "empty"
                  THEN [ok |-> TRUE, v |-> RMul(DEFAULT_INFLATION, R(100))]
                  ELSE ParseNonNegative(form.inflation)
       IN  /\ ny_living' = ny.v
           /\ inflation' = IF ny.ok /\ pct.ok THEN RDiv(pct.v, R(100)) ELSE None
           /\ error' = IF ~ny.ok THEN NyLivingError
                       ELSE IF ~pct.ok THEN InflationError
                       ELSE None
    /\ response' = IF error'.k = "msg" THEN "page" ELSE response
    /\ pc' = IF error'.k = "msg" THEN "web_done" ELSE "web_parsed"
    /\ UNCHANGED <<df, query, row, result, frame, form, charts, policyVars>>
    /\ UNCHANGED concVars

\* budget_planning_view, no error so far: row = find_university(...); a
\* university that is not found is an error message on the page.
ViewLookup ==
    /\ pc \in {"start", "web_parsed"}
    /\ row' = find_university(df, query)
    /\ error' = IF row'.k = "none" THEN NotFoundError ELSE error
    /\ response' = IF row'.k = "none" THEN "page" ELSE response
    /\ pc' = IF row'.k = "none" THEN "web_done" ELSE "web_row"
    /\ UNCHANGED <<df, query, ny_living, inflation, result, frame>>
    /\ UNCHANGED <<form, charts, policyVars>>
    /\ UNCHANGED concVars

\* generate_insight_charts(result, STATIC_DIR, base_name="budget"): the
\* filenames written, none when the result has no yearly lines.
generate_insight_charts(res, base_name) ==
    [k |-> "files",
     names |-> IF res.years = <<>> THEN {}
               ELSE {<<base_name, "_stacked.png">>,
                     <<base_name, "_totals.png">>,
                     <<base_name, "_components.png">>}]

\* budget_planning_view:
\*   result = compute_budget(row, ny_living, inflation_rate=inflation_rate or 0.0)
\*   charts = generate_insight_charts(result, STATIC_DIR, base_name="budget")
\* An exception leaves the view: the request ends in a server error.
ViewCompute ==
    /\ pc = "web_row"
    /\ result' = call_compute_budget(row.r, ny_living,
                                     [inflation_rate |-> inflation])
    /\ charts' = IF result'.kind = "raised" THEN charts
                 ELSE generate_insight_charts(result', "budget")
    /\ response' = IF result'.kind = "raised" THEN "error500" ELSE "page"
    /\ pc' = "web_done"
    /\ UNCHANGED <<df, query, ny_living, inflation, row, frame>>
    /\ UNCHANGED <<form, error, policyVars>>
    /\ UNCHANGED concVars

\* frame = build_policy_frame(df, ny_living)
PolicyBuild ==
    /\ pc = "start"
    /\ frame' = build_policy_frame(df, ny_living)
    /\ pc' = "policy"
    /\ UNCHANGED <<df, query, ny_living, inflation, row, result>>
    /\ UNCHANGED <<webVars, policyVars>>
    /\ UNCHANGED concVars

\* scenario_frame = apply_policy_scenario(frame, tuition_cut, living_subsidy)
\* with levers from the given sets.
ApplyScenarioWith(at, tuition_cuts, living_subsidies) ==
    /\ pc = at
    /\ \E tc \in tuition_cuts, ls \in living_subsidies :
          /\ levers' = [tuition_cut |-> tc, living_subsidy |-> ls]
          /\ scen' = apply_policy_scenario(frame, tc, ls)
    /\ pc' = "scenario"
    /\ UNCHANGED <<df, query, ny_living, inflation, row, result, frame>>
    /\ UNCHANGED <<webVars, target_annual, gaps, tables>>
    /\ UNCHANGED concVars

ApplyScenario == ApplyScenarioWith("policy", LeverValues, LeverValues)

\* The scenario under levers in [0, 1].
ApplyUnitLevers == ApplyScenarioWith("policy", UnitLevers, UnitLevers)

\* tables = summarize_policy_insights(frame)
Summarize ==
    /\ pc = "policy"
    /\ tables' = summarize_policy_insights(frame)
    /\ pc' = "summarized"
    /\ UNCHANGED <<df, query, ny_living, inflation, row, result, frame>>
    /\ UNCHANGED <<webVars, levers, target_annual, scen, gaps>>
    /\ UNCHANGED concVars

\* The scenario after the summary, as in the view.
SummarizedScenario ==
    ApplyScenarioWith("summarized", TableLevers, TableLevers)

\* scenario_gaps = compute_target_gap_tables(scenario_frame, target_annual,
\*     total_col="scenario_total_annual_usd",
\*     tuition_col="scenario_tuition_annual_usd",
\*     indirect_col="scenario_indirect_annual_usd")
\* with any target a caller can pass.
TargetGap ==
    /\ pc = "scenario"
    /\ scen.k = "frame"
    /\ \E t \in TargetValues :
          /\ target_annual' = t
          /\ gaps' = compute_target_gap_tables(
                         scen, t, "scenario_total_annual_usd",
                         "scenario_tuition_annual_usd",
                         "scenario_indirect_annual_usd")
    /\ pc' = "gaps"
    /\ UNCHANGED <<df, query, ny_living, inflation, row, result, frame>>
    /\ UNCHANGED <<webVars, levers, scen, tables>>
    /\ UNCHANGED concVars

TargetError == "Please enter a valid positive target annual cost (USD)."
TuitionCutError ==
    "Please enter a valid percentage between 0 and 100 for tuition discount."
LivingSubsidyError ==
    "Please enter a valid percentage between 0 and 100 for living-cost subsidy."

\* a <= b on floats: false when either is NaN.
FloatLe(a, b) == a.k = "num" /\ b.k = "num" /\ RLe(a.v, b.v)

\* A rejected target replaced by the default.
ParseTargetRejectedIsDefault(raw, default) ==
    LET f == PyFloat(raw)
    IN  IF raw.k = "empty" THEN [target |-> default, err |-> FALSE]
        ELSE IF ~f.ok \/ FloatLe(f.v, Num(R(0)))
        THEN [target |-> default, err |-> TRUE]
        ELSE [target |-> f.v, err |-> FALSE]

\* policy_analysis, the target: target_annual = default_target, and for a
\* non-blank parameter
\*   try: target_annual = float(target_raw); if target_annual <= 0: raise
\*   except: parse_errors.append(...)
\* so the number float() gave stays in target_annual when it is rejected.
ParseTarget(raw, default) ==
    LET f == PyFloat(raw)
    IN  IF raw.k = "empty" THEN [target |-> default, err |-> FALSE]
        ELSE IF ~f.ok THEN [target |-> default, err |-> TRUE]
        ELSE [target |-> f.v, err |-> FloatLe(f.v, Num(R(0)))]

\* A percentage taken whatever its range.
ParsePercentUnchecked(raw) ==
    LET f == PyFloat(raw)
    IN  IF raw.k = "empty" THEN [value |-> Num(R(0)), err |-> FALSE]
        ELSE IF ~f.ok THEN [value |-> Num(R(0)), err |-> TRUE]
        ELSE IF f.v.k = "nan" THEN [value |-> NaN, err |-> FALSE]
        ELSE [value |-> Num(RDiv(f.v.v, R(100))), err |-> FALSE]

\* _parse_percent(raw, label): 0.0 for a blank parameter; val / 100 for a
\* number in 0..100; 0.0 and an error message otherwise.  NaN is neither
\* below 0 nor above 100 and is returned as NaN.
ParsePercent(raw) ==
    LET f == PyFloat(raw)
    IN  IF raw.k = "empty" THEN [value |-> Num(R(0)), err |-> FALSE]
        ELSE IF ~f.ok THEN [value |-> Num(R(0)), err |-> TRUE]
        ELSE IF FloatLt(f.v, Num(R(0))) \/ FloatLt(Num(R(100)), f.v)
        THEN [value |-> Num(R(0)), err |-> TRUE]
        ELSE IF f.v.k = "nan" THEN [value |-> NaN, err |-> FALSE]
        ELSE [value |-> Num(RDiv(f.v.v, R(100))), err |-> FALSE]

\* generate_policy_charts(frame, STATIC_DIR, base_name="policy"): the
\* filenames written; none for an empty frame, and no economic_context
\* chart when no row has a Country.
generate_policy_charts(f, base_name) ==
    [k |-> "files",
     names |->
        IF IsEmpty(f) THEN {}
        ELSE {<<base_name, "_cost_components.png">>,
              <<base_name, "_institution_program.png">>}
             \cup (IF \E i \in 1..Len(f.rows) : f.rows[i].Country.k = "text"
                   THEN {<<base_name, "_economic_context.png">>}
                   ELSE {})]

\* policy_analysis: frame = build_policy_frame(df, DEFAULT_NY_BASELINE)
PolicyViewBuild ==
    /\ pc = "policy_request"
    /\ frame' = build_policy_frame(df, DEFAULT_NY_BASELINE)
    /\ pc' = "policy"
    /\ UNCHANGED <<df, query, ny_living, inflation, row, result>>
    /\ UNCHANGED <<webVars, policyVars>>
    /\ UNCHANGED concVars

\* policy_analysis: charts = generate_policy_charts(frame, STATIC_DIR, ...)
PolicyViewCharts ==
    /\ pc = "summarized"
    /\ "target_annual" \in DOMAIN form
    /\ charts' = generate_policy_charts(frame, "policy")
    /\ pc' = "charted"
    /\ UNCHANGED <<df, query, ny_living, inflation, row, result, frame>>
    /\ UNCHANGED <<form, error, response, policyVars>>
    /\ UNCHANGED concVars

\* policy_analysis: the three query parameters are parsed; every message
\* is collected and the handler goes on.
PolicyViewParse ==
    /\ pc = "charted"
    /\ LET default_target ==
               IF IsEmpty(frame) THEN Num(R(0))
               ELSE Num(Median(Column(frame.rows, "total_annual_usd")))
           t == ParseTarget(form.target_annual, default_target)
           tc == ParsePercent(form.tuition_cut)
           ls == ParsePercent(form.living_subsidy)
           parse_errors ==
               (IF t.err THEN <<TargetError>> ELSE <<>>)
               \o (IF tc.err THEN <<TuitionCutError>> ELSE <<>>)
               \o (IF ls.err THEN <<LivingSubsidyError>> ELSE <<>>)
       IN  /\ target_annual' = t.target
           /\ levers' = [tuition_cut |-> tc.value, living_subsidy |-> ls.value]
           /\ error' = IF parse_errors = <<>> THEN None
                       ELSE Message(parse_errors)
    /\ pc' = "parsed"
    /\ UNCHANGED <<df, query, ny_living, inflation, row, result, frame>>
    /\ UNCHANGED <<form, charts, response, scen, gaps, tables>>
    /\ UNCHANGED concVars

\* policy_analysis: the scenario and its gap tables with the parsed values,
\* then the page; an exception leaves the view as a server error.
PolicyViewScenario ==
    /\ pc = "parsed"
    /\ scen' = apply_policy_scenario(frame, levers.tuition_cut,
                                     levers.living_subsidy)
    /\ gaps' = IF scen'.k = "raised" THEN gaps
               ELSE compute_target_gap_tables(
                        scen', target_annual, "scenario_total_annual_usd",
                        "scenario_tuition_annual_usd",
                        "scenario_indirect_annual_usd")
    /\ response' = IF scen'.k = "raised" \/ gaps'.k = "raised"
                   THEN "error500" ELSE "page"
    /\ pc' = "policy_done"
    /\ UNCHANGED <<df, query, ny_living, inflation, row, result, frame>>
    /\ UNCHANGED <<form, error, charts, levers, target_annual, tables>>
    /\ UNCHANGED concVars

\* savefig on each of the names: the file holds the drawing of content,
\* whatever it held; writers records every request that wrote it.
WriteFiles(fs, names, r, content) ==
    [n \in DOMAIN fs \cup names |->
        IF n \in names
        THEN [content |-> content,
              writers |-> (IF n \in DOMAIN fs THEN fs[n].writers ELSE {})
                          \cup {r}]
        ELSE fs[n]]

\* budget_planning_view in request r, a POST with both numeric fields
\* blank: the defaults are taken and the university is looked up.
ReqLookup(r) ==
    /\ reqs[r].kind = "budget"
    /\ reqs[r].pc = "request"
    /\ LET found == find_university(df, reqs[r].university)
       IN  reqs' = [reqs EXCEPT
                      ![r].row = found,
                      ![r].error = IF found.k = "none" THEN NotFoundError
                                   ELSE None,
                      ![r].response = IF found.k = "none" THEN "page"
                                      ELSE "none",
                      ![r].pc = IF found.k = "none" THEN "done"
                                ELSE "web_row"]
    /\ UNCHANGED <<df, requestVars, webVars, policyVars, files>>

\* budget_planning_view in request r: compute_budget, then
\* generate_insight_charts writes its files under the fixed base name
\* "budget" into STATIC_DIR, then the page is rendered.
ReqCompute(r) ==
    /\ reqs[r].kind = "budget"
    /\ reqs[r].pc = "web_row"
    /\ LET res == call_compute_budget(reqs[r].row.r, DEFAULT_NY_BASELINE,
                                      [inflation_rate |-> DEFAULT_INFLATION])
       IN  IF res.kind = "raised"
           THEN /\ reqs' = [reqs EXCEPT ![r].result = res,
                                        ![r].response = "error500",
                                        ![r].pc = "done"]
                /\ files' = files
           ELSE LET ch == generate_insight_charts(res, "budget")
                IN  /\ reqs' = [reqs EXCEPT ![r].result = res,
                                            ![r].charts = ch,
                                            ![r].response = "page",
                                            ![r].pc = "done"]
                    /\ files' = WriteFiles(files, ch.names, r, res)
    /\ UNCHANGED <<df, requestVars, webVars, policyVars>>

\* policy_analysis in request r: the frame is built and
\* generate_policy_charts writes its files under the fixed base name
\* "policy" into STATIC_DIR.
ReqPolicyCharts(r) ==
    /\ reqs[r].kind = "policy"
    /\ reqs[r].pc = "request"
    /\ LET f == build_policy_frame(df, DEFAULT_NY_BASELINE)
           ch == generate_policy_charts(f, "policy")
       IN  /\ reqs' = [reqs EXCEPT ![r].result = f,
                                   ![r].charts = ch,
                                   ![r].pc = "charted"]
           /\ files' = WriteFiles(files, ch.names, r, f)
    /\ UNCHANGED <<df, requestVars, webVars, policyVars>>

\* policy_analysis in request r: the scenario and the tables are locals of
\* the request (PolicyViewParse, PolicyViewScenario); the page is rendered.
ReqPolicyRender(r) ==
    /\ reqs[r].kind = "policy"
    /\ reqs[r].pc = "charted"
    /\ reqs' = [reqs EXCEPT ![r].response = "page", ![r].pc = "done"]
    /\ UNCHANGED <<df, requestVars, webVars, policyVars, files>>

Init == InitWith(BudgetDatasets \cup FindDatasets \cup PolicyDatasets, Queries)

Next == MainLookup \/ MainCompute \/ ViewLookup \/ ViewCompute \/ PolicyBuild

Spec == Init /\ [][Next]_vars

\* compute_budget on every kind of record, reached from both entry points.
InitBudget == InitWith(BudgetDatasets, {<<"a">>})
NextBudget == MainLookup \/ MainCompute \/ ViewLookup \/ ViewCompute
SpecBudget == InitBudget /\ [][NextBudget]_vars

\* find_university on every dataset of University cells and every query.
InitFind == InitWith(FindDatasets, Queries)
NextFind == MainLookup \/ ViewLookup
SpecFind == InitFind /\ [][NextFind]_vars

\* find_university on the datasets in which every record has a name.
InitFindNamed == InitWith(FindDatasetsOver(UniversityNames), Queries)
SpecFindNamed == InitFindNamed /\ [][NextFind]_vars

\* build_policy_frame on every dataset of policy rows.
InitPolicy == InitWith(PolicyDatasets, {<<"a">>})
NextPolicy == PolicyBuild
SpecPolicy == InitPolicy /\ [][NextPolicy]_vars

\* A frame is built and a scenario with any levers applied to it.
InitScenario == InitWith(ScenarioDatasets, {<<>>}) /\ inflation = R(0)
NextScenario == PolicyBuild \/ ApplyScenario
SpecScenario == InitScenario /\ [][NextScenario]_vars

\* The frame is built, summarised, put under a scenario and compared with
\* a target, in the order of the /policy-analysis view.
InitTables == InitWith(TableDatasets, {<<>>}) /\ inflation = R(0)
NextTables == PolicyBuild \/ Summarize \/ SummarizedScenario \/ TargetGap
SpecTables == InitTables /\ [][NextTables]_vars

\* A frame of records with non-negative costs under levers in [0, 1].
InitLevers == InitWith(LeverDatasets, {<<>>}) /\ inflation = R(0)
NextLevers == PolicyBuild \/ ApplyUnitLevers
SpecLevers == InitLevers /\ [][NextLevers]_vars

\* A request as it arrives.
BudgetRequest(university) ==
    [kind |-> "budget", university |-> university, pc |-> "request",
     row |-> NotCalled, result |-> NoResult, charts |-> None,
     error |-> None, response |-> "none"]
PolicyRequest ==
    [kind |-> "policy", university |-> <<>>, pc |-> "request",
     row |-> NotCalled, result |-> NoResult, charts |-> None,
     error |-> None, response |-> "none"]

\* The universities two budget requests ask for.
RequestedUniversities == {<<"a", "b">>, <<"A", "n">>}

\* Two requests in flight: two budget requests for different universities,
\* or a budget request and a policy request.
RequestPairs ==
    {<<BudgetRequest(p[1]), BudgetRequest(p[2])>> :
        p \in {q \in RequestedUniversities \X RequestedUniversities :
                  q[1] # q[2]}}
    \cup {<<BudgetRequest(u), PolicyRequest>> : u \in RequestedUniversities}
    \cup {<<PolicyRequest, BudgetRequest(u)>> : u \in RequestedUniversities}

InitConcurrent ==
    /\ df \in FindDatasetsOver({Str(<<"a", "b">>), Str(<<"A", "n">>)})
    /\ reqs \in RequestPairs
    /\ files = <<>>
    /\ query = <<>>
    /\ ny_living = None
    /\ inflation = None
    /\ pc = "serving"
    /\ row = NotCalled
    /\ result = NoResult
    /\ frame = NotCalled
    /\ form = NotCalled
    /\ error = None
    /\ charts = None
    /\ response = "none"
    /\ levers = NotCalled
    /\ target_annual = NotCalled
    /\ scen = NotCalled
    /\ gaps = NotCalled
    /\ tables = NotCalled
NextConcurrent ==
    \E r \in {1, 2} :
        \/ ReqLookup(r)
        \/ ReqCompute(r)
        \/ ReqPolicyCharts(r)
        \/ ReqPolicyRender(r)
SpecConcurrent == InitConcurrent /\ [][NextConcurrent]_vars

\* What the query parameters of /policy-analysis can hold.
TargetFields ==
    {EmptyStr, Bad, NanStr, NumStr(R(50000)), NumStr(R(0)), NumStr(R(-5))}
PercentFields ==
    {EmptyStr, Bad, NanStr, NumStr(R(50)), NumStr(R(-1)), NumStr(R(150))}

\* The datasets behind the /policy-analysis view.
PolicyViewDatasets ==
    {ReadCsv(ColumnNames, rs) :
        rs \in SeqsUpTo({MkRow(TestU, c[1], LevelA, Num(R(2)), c[2],
                               Num(R(500)), Num(R(1000)), Num(R(200)),
                               Num(R(120)), Num(Frac(11, 10))) :
                            c \in {<<LevelA, Num(R(10000))>>,
                                   <<LevelB, Num(R(20000))>>}},
                        MaxRows)}

\* The /policy-analysis view on every combination of query parameters.
InitPolicyView ==
    /\ df \in PolicyViewDatasets
    /\ query = <<>>
    /\ form \in [target_annual : TargetFields, tuition_cut : PercentFields,
                 living_subsidy : PercentFields]
    /\ ny_living = None
    /\ inflation = None
    /\ pc = "policy_request"
    /\ row = NotCalled
    /\ result = NoResult
    /\ frame = NotCalled
    /\ error = None
    /\ charts = None
    /\ response = "none"
    /\ levers = NotCalled
    /\ target_annual = NotCalled
    /\ scen = NotCalled
    /\ gaps = NotCalled
    /\ tables = NotCalled
    /\ reqs = <<>>
    /\ files = <<>>
NextPolicyView ==
    \/ PolicyViewBuild
    \/ Summarize
    \/ PolicyViewCharts
    \/ PolicyViewParse
    \/ PolicyViewScenario
SpecPolicyView == InitPolicyView /\ [][NextPolicyView]_vars

\* What a form field can hold: nothing, text that is no number, a number.
NyLivingFields == {EmptyStr, Bad, NumStr(R(24000)), NumStr(R(-5))}
InflationFields == {EmptyStr, Bad, NumStr(R(0)), NumStr(R(5)), NumStr(R(-1))}

\* The /budget-planning view on every form, over small datasets of names.
InitView ==
    /\ df \in FindDatasetsOver({Str(<<"a">>), Str(<<"A", "n">>)})
    /\ query \in Queries
    /\ form \in [method : {"GET", "POST"}, ny_living : NyLivingFields,
                 inflation : InflationFields]
    /\ ny_living = None
    /\ inflation = None
    /\ pc = "request"
    /\ row = NotCalled
    /\ result = NoResult
    /\ frame = NotCalled
    /\ error = None
    /\ charts = None
    /\ response = "none"
    /\ levers = NotCalled
    /\ target_annual = NotCalled
    /\ scen = NotCalled
    /\ gaps = NotCalled
    /\ tables = NotCalled
    /\ reqs = <<>>
    /\ files = <<>>
NextView == ViewGet \/ ViewParse \/ ViewLookup \/ ViewCompute
SpecView == InitView /\ [][NextView]_vars

\* Both views of the web application, one request at a time.
InitWeb == InitView \/ InitPolicyView
NextWeb == NextView \/ NextPolicyView
SpecWeb == InitWeb /\ [][NextWeb]_vars

(***************************************************************************)
(* Properties of compute_budget, under SpecBudget.                         *)
(***************************************************************************)
IsPositiveInt(cell) == cell.k = "num" /\ cell.v.d = 1 /\ cell.v.n >= 1

\* The number a cost cell stands for: itself, or 0 when it is no number.
Coerced(cell) == IF cell.k = "num" THEN cell.v ELSE R(0)

RECURSIVE SumField(_, _)
SumField(lines, f) ==
    IF lines = <<>> THEN R(0)
    ELSE RAdd(SumField(SubSeq(lines, 1, Len(lines) - 1), f),
              lines[Len(lines)][f])

RECURSIVE RPow(_, _)
RPow(a, n) == IF n = 0 THEN R(1) ELSE RMul(a, RPow(a, n - 1))

\* C1: a record whose Duration_Years is a positive integer d yields exactly
\* d yearly lines, numbered 1, 2, ..., d in order, and duration_years = d.
C1_YearlyLinesContiguous ==
    (result.kind = "budget" /\ IsPositiveInt(row.r["Duration_Years"])) =>
        LET d == row.r["Duration_Years"].v.n
        IN  /\ result.duration_years = d
            /\ Len(result.years) = d
            /\ \A i \in 1..Len(result.years) : result.years[i].year = i

C1_Witness ==
    /\ result.kind = "budget"
    /\ row.r["Duration_Years"] = Num(R(3))
    /\ Len(result.years) = 3

\* C2: a call that passes inflation_rate = r returns a budget whose
\* living_usd for year y is ny_baseline * (Living_Cost_Index / 100) *
\* (1 + r)^(y - 1), with tuition, rent and insurance the same in all years.
C2_InflationEscalatesLiving ==
    (pc = "web_done" /\ row.k = "row") =>
        /\ result.kind = "budget"
        /\ \A i \in 1..Len(result.years) :
              /\ result.years[i].living_usd =
                    RMul(RMul(ny_living, result.living_multiplier),
                         RPow(RAdd(R(1), inflation), i - 1))
              /\ result.years[i].tuition_usd = result.years[1].tuition_usd
              /\ result.years[i].rent_usd = result.years[1].rent_usd
              /\ result.years[i].insurance_usd = result.years[1].insurance_usd

\* C3: a Duration_Years that is zero, negative, missing or invalid yields a
\* one-year program: duration_years = 1 and exactly one line, year 1.
C3_InvalidDurationIsOneYear ==
    (result.kind = "budget" /\ ~IsPositiveInt(row.r["Duration_Years"])
        /\ (row.r["Duration_Years"].k = "num" =>
               RLe(row.r["Duration_Years"].v, R(0)))) =>
        /\ result.duration_years = 1
        /\ Len(result.years) = 1
        /\ result.years[1].year = 1

\* C4: visa_usd is the record's visa fee in the line of year 1 and 0 in the
\* line of every later year.
C4_VisaOnlyInYearOne ==
    result.kind = "budget" =>
        \A i \in 1..Len(result.years) :
            result.years[i].visa_usd =
                IF result.years[i].year = 1
                THEN Coerced(row.r["Visa_Fee_USD"])
                ELSE R(0)

C4_Witness ==
    /\ result.kind = "budget"
    /\ Len(result.years) >= 2
    /\ result.years[1].visa_usd = R(200)
    /\ result.years[2].visa_usd = R(0)

\* C5: the program totals are the sums of the yearly totals, and twelve
\* monthly averages make the yearly average, in USD and in local currency,
\* for every record, those with an invalid duration included.
C5_TotalsAndAverages ==
    result.kind = "budget" =>
        /\ result.program_total_usd = SumField(result.years, "total_usd")
        /\ result.program_total_local = SumField(result.years, "total_local")
        /\ RMul(result.avg_month_usd, R(12)) = result.avg_year_usd
        /\ RMul(result.avg_month_local, R(12)) = result.avg_year_local

C5_Witness ==
    /\ result.kind = "budget"
    /\ Len(result.years) = 3
    /\ RLt(R(0), result.avg_month_local)
    /\ result.program_total_usd # result.program_total_local

\* The record of the end-to-end example.
IsExampleRecord(r) ==
    /\ r["Duration_Years"] = Num(R(2))
    /\ r["Tuition_USD"] = Num(R(10000))
    /\ r["Rent_USD"] = Num(R(500))
    /\ r["Insurance_USD"] = Num(R(1000))
    /\ r["Visa_Fee_USD"] = Num(R(200))
    /\ r["Living_Cost_Index"] = Num(R(120))
    /\ r["Exchange_Rate"] = Num(Frac(11, 10))

\* C9: every line has direct_usd = tuition + rent * 12 + insurance + visa,
\* total_usd = direct_usd + living_usd and total_local = total_usd *
\* Exchange_Rate; the example record with ny_baseline = 24000 gives year 1 =
\* {17200, 28800, 46000, 50600}, year 2 = {0, 17000, 28800, 45800, 50380}
\* and program_total_usd = 91800.
C9_LineArithmeticAndExample ==
    result.kind = "budget" =>
        /\ \A i \in 1..Len(result.years) :
              LET line == result.years[i]
              IN  /\ line.tuition_usd = Coerced(row.r["Tuition_USD"])
                  /\ line.rent_usd = RMul(Coerced(row.r["Rent_USD"]), R(12))
                  /\ line.insurance_usd = Coerced(row.r["Insurance_USD"])
                  /\ line.direct_usd =
                        RAdd(RAdd(RAdd(line.tuition_usd, line.rent_usd),
                                  line.insurance_usd), line.visa_usd)
                  /\ line.total_usd = RAdd(line.direct_usd, line.living_usd)
                  /\ line.total_local =
                        RMul(line.total_usd, result.exchange_rate)
        /\ (IsExampleRecord(row.r) /\ ny_living = R(24000)) =>
              /\ Len(result.years) = 2
              /\ result.years[1].direct_usd = R(17200)
              /\ result.years[1].living_usd = R(28800)
              /\ result.years[1].total_usd = R(46000)
              /\ result.years[1].total_local = R(50600)
              /\ result.years[2].visa_usd = R(0)
              /\ result.years[2].direct_usd = R(17000)
              /\ result.years[2].living_usd = R(28800)
              /\ result.years[2].total_usd = R(45800)
              /\ result.years[2].total_local = R(50380)
              /\ result.program_total_usd = R(91800)

C9_Witness ==
    /\ result.kind = "budget"
    /\ IsExampleRecord(row.r)
    /\ ny_living = R(24000)
    /\ result.program_total_usd = R(91800)

\* A cell that is missing: the column is absent or the cell is empty.
Missing(cell) == cell.k \in {"absent", "nan"}

\* C6: a missing or non-numeric Tuition_USD, Rent_USD, Insurance_USD or
\* Visa_Fee_USD becomes 0.0, a missing Duration_Years becomes 1, a missing
\* Living_Cost_Index becomes 100 and a missing Exchange_Rate becomes 1, and
\* nothing is raised, in compute_budget and in build_policy_frame.
C6_MissingFieldsTakeDefaults ==
    /\ pc = "cli_done" /\ row.k = "row" =>
          /\ result.kind = "budget"
          /\ Missing(row.r["Duration_Years"]) => result.duration_years = 1
          /\ Missing(row.r["Living_Cost_Index"]) =>
                result.living_multiplier = RDiv(R(100), R(100))
          /\ Missing(row.r["Exchange_Rate"]) => result.exchange_rate = R(1)
          /\ \A i \in 1..Len(result.years) :
                /\ row.r["Tuition_USD"].k # "num" =>
                      result.years[i].tuition_usd = R(0)
                /\ row.r["Rent_USD"].k # "num" =>
                      result.years[i].rent_usd = R(0)
                /\ row.r["Insurance_USD"].k # "num" =>
                      result.years[i].insurance_usd = R(0)
                /\ row.r["Visa_Fee_USD"].k # "num" =>
                      result.years[i].visa_usd = R(0)
    /\ frame.k = "frame" =>
          \A i \in 1..Len(frame.rows) :
              /\ Missing(df.rows[i]["Duration_Years"]) =>
                    frame.rows[i].Duration_Years = 1
              /\ Missing(df.rows[i]["Living_Cost_Index"]) =>
                    frame.rows[i].Living_Cost_Index = R(100)
              /\ Missing(df.rows[i]["Exchange_Rate"]) =>
                    frame.rows[i].Exchange_Rate = R(1)
              /\ df.rows[i]["Tuition_USD"].k # "num" =>
                    frame.rows[i].Tuition_USD = R(0)
              /\ df.rows[i]["Rent_USD"].k # "num" =>
                    frame.rows[i].Rent_USD = R(0)
              /\ df.rows[i]["Insurance_USD"].k # "num" =>
                    frame.rows[i].Insurance_USD = R(0)
              /\ df.rows[i]["Visa_Fee_USD"].k # "num" =>
                    frame.rows[i].Visa_Fee_USD = R(0)

(***************************************************************************)
(* Properties of find_university, under SpecFind and SpecFindNamed.        *)
(***************************************************************************)
\* q is a substring of s, letter case ignored, every character literal.
LiteralContains(q, s) ==
    \E i \in 0..(Len(s) - Len(q)) :
        \A j \in 1..Len(q) : Lower(q[j]) = Lower(s[i + j])

\* The positions of the records whose University holds the query.
LiteralHits ==
    {i \in 1..Len(df.rows) :
        /\ df.rows[i]["University"].k = "text"
        /\ LiteralContains(query, df.rows[i]["University"].s)}

\* C7: the lookup returns the first record in dataset order whose
\* University holds the query as a case-insensitive literal substring, and
\* not-found exactly when there is none or the column is absent.
C7_FirstLiteralMatch ==
    row.k # "notcalled" =>
        IF LiteralHits = {}
        THEN row.k = "none"
        ELSE /\ row.k = "row"
             /\ row.r = df.rows[CHOOSE i \in LiteralHits :
                                    \A j \in LiteralHits : i <= j]

\* C8: for a non-empty query the lookup never returns a record whose
\* University is missing.
C8_MissingNameNeverMatches ==
    (row.k = "row" /\ query # <<>>) => row.r["University"].k = "text"

(***************************************************************************)
(* Properties of build_policy_frame, under SpecPolicy.                     *)
(***************************************************************************)
AllTotalsEqual ==
    \A i, j \in 1..Len(frame.rows) :
        frame.rows[i].total_annual_usd = frame.rows[j].total_annual_usd

IsCheapest(i) ==
    \A j \in 1..Len(frame.rows) :
        RLe(frame.rows[i].total_annual_usd, frame.rows[j].total_annual_usd)

IsDearest(i) ==
    \A j \in 1..Len(frame.rows) :
        RLe(frame.rows[j].total_annual_usd, frame.rows[i].total_annual_usd)

\* C10: in a non-empty frame every affordability_index is in [0, 100]; a
\* cheaper row never has a lower index than a dearer one; when the totals
\* are all equal every index is 50, and otherwise the rows with the least
\* total have 100 and the rows with the greatest total have 0.
C10_AffordabilityIndex ==
    (frame.k = "frame" /\ frame.rows # <<>>) =>
        /\ \A i \in 1..Len(frame.rows) :
              /\ RLe(R(0), frame.rows[i].affordability_index)
              /\ RLe(frame.rows[i].affordability_index, R(100))
        /\ \A i, j \in 1..Len(frame.rows) :
              RLt(frame.rows[i].total_annual_usd,
                  frame.rows[j].total_annual_usd) =>
                 RLe(frame.rows[j].affordability_index,
                     frame.rows[i].affordability_index)
        /\ IF AllTotalsEqual
           THEN \A i \in 1..Len(frame.rows) :
                    frame.rows[i].affordability_index = R(50)
           ELSE \A i \in 1..Len(frame.rows) :
                    /\ IsCheapest(i) =>
                          frame.rows[i].affordability_index = R(100)
                    /\ IsDearest(i) =>
                          frame.rows[i].affordability_index = R(0)

C10_Witness ==
    /\ frame.k = "frame"
    /\ Len(frame.rows) = 3
    /\ frame.rows[1].affordability_index = R(0)
    /\ frame.rows[3].affordability_index = R(100)
    /\ RLt(R(0), frame.rows[2].affordability_index)
    /\ RLt(frame.rows[2].affordability_index, R(100))

\* The total_annual_usd of the rows of the frame whose Level cell equals
\* that of row i, a missing Level counted as a level of its own.
SameLevelTotals(i) == GroupTotals(frame.rows, 1, frame.rows[i].Level)

\* C11: every row of the policy frame, a row with a missing Level included,
\* has a policy_gap_usd that is a number, namely its total_annual_usd minus
\* the median total_annual_usd of the rows with the same Level.
C11_PolicyGapDefinedForEveryRow ==
    frame.k = "frame" =>
        \A i \in 1..Len(frame.rows) :
            /\ frame.rows[i].policy_gap_usd.k = "num"
            /\ frame.rows[i].policy_gap_usd.v =
                   RSub(frame.rows[i].total_annual_usd,
                        Median(SameLevelTotals(i)))

\* A form field that is blank or holds a non-negative number.
ValidField(x) == x.k = "empty" \/ (x.k = "numstr" /\ RLe(R(0), x.v))

\* The number a valid field stands for, given its default.
FieldValue(x, default) == IF x.k = "empty" THEN default ELSE x.v

\* C20: a POST to /budget-planning with a valid or blank ny_living, a valid
\* or blank inflation percentage and a university found in the dataset ends
\* without a server error: compute_budget ran with the parsed baseline and
\* inflation rate (26000 and 3% for blank fields) and the page shows a
\* result and its three chart files.
C20_ValidPostRendersResult ==
    (/\ pc = "web_done"
     /\ "method" \in DOMAIN form
     /\ form.method = "POST"
     /\ ValidField(form.ny_living)
     /\ ValidField(form.inflation)
     /\ \E i \in 1..Len(df.rows) : df.rows[i].University = Str(query)
     /\ row.k = "row") =>
        /\ response = "page"
        /\ ny_living = FieldValue(form.ny_living, R(26000))
        /\ inflation = RDiv(FieldValue(form.inflation, R(3)), R(100))
        /\ result.kind = "budget"
        /\ result.ny_baseline = ny_living
        /\ charts.k = "files"
        /\ Cardinality(charts.names) = 3

\* C12: with both levers 0.0 the scenario total, direct and indirect costs
\* of every row equal the frame's total, direct and indirect costs, whatever
\* the Duration_Years of the record was.
C12_ZeroLeversAreIdentity ==
    (/\ pc = "scenario"
     /\ levers = [tuition_cut |-> Num(R(0)), living_subsidy |-> Num(R(0))]
     /\ scen.k = "frame") =>
        \A i \in 1..Len(scen.rows) :
            /\ scen.rows[i].scenario_total_annual_usd =
                   frame.rows[i].total_annual_usd
            /\ scen.rows[i].scenario_direct_annual_usd =
                   frame.rows[i].direct_annual_usd
            /\ scen.rows[i].scenario_indirect_annual_usd =
                   frame.rows[i].indirect_annual_usd

\* The lever the specification gives for an input: a number clamped into
\* [0, 1], and 0 for anything that is not a number (NaN included).
ClampedLever(x) ==
    IF x.k # "num" THEN R(0)
    ELSE IF RLt(x.v, R(0)) THEN R(0)
    ELSE IF RLt(R(1), x.v) THEN R(1)
    ELSE x.v

\* C13: apply_policy_scenario raises on no lever value, and its result is
\* the one the clamped levers give: below 0 acts as 0, above 1 as 1, and
\* None, text and NaN as 0.
C13_LeversClampedOrZero ==
    pc = "scenario" =>
        /\ scen.k = "frame"
        /\ scen = apply_policy_scenario(
                      frame, Num(ClampedLever(levers.tuition_cut)),
                      Num(ClampedLever(levers.living_subsidy)))

ScenarioTotalsEqual ==
    \A i, j \in 1..Len(scen.rows) :
        scen.rows[i].scenario_total_annual_usd =
            scen.rows[j].scenario_total_annual_usd

IsCheapestScenario(i) ==
    \A j \in 1..Len(scen.rows) :
        RLe(scen.rows[i].scenario_total_annual_usd,
            scen.rows[j].scenario_total_annual_usd)

IsDearestScenario(i) ==
    \A j \in 1..Len(scen.rows) :
        RLe(scen.rows[j].scenario_total_annual_usd,
            scen.rows[i].scenario_total_annual_usd)

\* C14: scenario_affordability_index is the min-max normalisation over the
\* scenario totals alone: 50 for every row when they are all equal, and
\* otherwise 100 * (max - total) / (max - min) with min and max the least
\* and greatest scenario total, so 100 for the cheapest and 0 for the
\* dearest scenario row; the affordability_index column is as in the frame.
C14_ScenarioIndexFromScenarioTotals ==
    (pc = "scenario" /\ scen.k = "frame" /\ scen.rows # <<>>) =>
        /\ \A i \in 1..Len(scen.rows) :
              scen.rows[i].affordability_index =
                  frame.rows[i].affordability_index
        /\ IF ScenarioTotalsEqual
           THEN \A i \in 1..Len(scen.rows) :
                    scen.rows[i].scenario_affordability_index = R(50)
           ELSE \A i, lo, hi \in 1..Len(scen.rows) :
                    (IsCheapestScenario(lo) /\ IsDearestScenario(hi)) =>
                        /\ scen.rows[lo].scenario_affordability_index = R(100)
                        /\ scen.rows[hi].scenario_affordability_index = R(0)
                        /\ scen.rows[i].scenario_affordability_index =
                             RDiv(RMul(R(100),
                                       RSub(scen.rows[hi].scenario_total_annual_usd,
                                            scen.rows[i].scenario_total_annual_usd)),
                                  RSub(scen.rows[hi].scenario_total_annual_usd,
                                       scen.rows[lo].scenario_total_annual_usd))

\* A tuition cut has moved the scenario totals away from the baseline
\* totals, and a row lies strictly between the cheapest and the dearest.
C14_Witness ==
    /\ pc = "scenario"
    /\ scen.k = "frame"
    /\ Len(scen.rows) = 3
    /\ levers.tuition_cut = Num(Frac(1, 2))
    /\ \E i \in 1..3 :
          /\ RLt(R(0), scen.rows[i].scenario_affordability_index)
          /\ RLt(scen.rows[i].scenario_affordability_index, R(100))
          /\ scen.rows[i].scenario_affordability_index #
                 scen.rows[i].affordability_index

\* The years a frame row's program lasts: its Duration_Years, one year when
\* that is not at least 1.
ProgramYears(f) == IF f.Duration_Years >= 1 THEN f.Duration_Years ELSE 1

\* C15: in every row of the policy frame direct_annual_usd is tuition +
\* 12 * rent + insurance + the visa fee divided by the years of the
\* program, indirect_annual_usd is the baseline times Living_Cost_Index /
\* 100 and total_annual_usd is their sum; and for a record of d >= 1 years,
\* d times total_annual_usd is the program_total_usd compute_budget gives
\* for the same record and baseline.
C15_AnnualCostsAndProgramTotal ==
    frame.k = "frame" =>
        \A i \in 1..Len(frame.rows) :
            LET f == frame.rows[i]
            IN  /\ f.direct_annual_usd =
                       RAdd(RAdd(RAdd(f.Tuition_USD,
                                      RMul(f.Rent_USD, R(12))),
                                 f.Insurance_USD),
                            RDiv(f.Visa_Fee_USD, R(ProgramYears(f))))
                /\ f.indirect_annual_usd =
                       RDiv(RMul(ny_living, f.Living_Cost_Index), R(100))
                /\ f.total_annual_usd =
                       RAdd(f.direct_annual_usd, f.indirect_annual_usd)
                /\ f.Duration_Years >= 1 =>
                       RMul(R(f.Duration_Years), f.total_annual_usd) =
                           compute_budget(df.rows[i],
                                          ny_living).program_total_usd

\* A two-year program whose visa fee of 200 counts 100 a year.
C15_Witness ==
    /\ frame.k = "frame"
    /\ \E i \in 1..Len(frame.rows) :
          /\ df.rows[i].Duration_Years = Num(R(2))
          /\ frame.rows[i].Duration_Years = 2
          /\ frame.rows[i].Visa_Fee_USD = R(200)
          /\ frame.rows[i].direct_annual_usd = R(17100)
          /\ compute_budget(df.rows[i], ny_living).program_total_usd =
                 R(91800)

ScenarioTotals == Column(scen.rows, "scenario_total_annual_usd")

\* The rows of table t are the rows of the frame rows, each exactly once,
\* restricted to the columns of t.
IsPermutationOf(t, rows) ==
    /\ Len(t) = Len(rows)
    /\ {t[j].index : j \in 1..Len(t)} = {i - 1 : i \in 1..Len(rows)}
    /\ \A j \in 1..Len(t) :
          \A c \in DOMAIN t[j] \ {"index"} :
              c \in DOMAIN rows[t[j].index + 1] =>
                  t[j][c] = rows[t[j].index + 1][c]

\* C16: with a numeric target, every row has gap_to_target_usd = total -
\* target and above_target exactly when total > target, so as many rows are
\* flagged as have a total above the target; the programs table holds every
\* row of the input once, with its gap, from the largest gap to the
\* smallest.
C16_GapsAndProgramsTable ==
    (/\ pc = "gaps"
     /\ scen.rows # <<>>
     /\ target_annual.k \in {"num", "numstr"}) =>
        /\ gaps.k = "tables"
        /\ \A i \in 1..Len(scen.rows) :
              /\ gaps.work[i].gap_to_target_usd =
                     Num(RSub(ScenarioTotals[i], target_annual.v))
              /\ gaps.work[i].above_target <=>
                     RLt(target_annual.v, ScenarioTotals[i])
        /\ Cardinality({i \in 1..Len(scen.rows) :
                           gaps.work[i].above_target}) =
               Cardinality({i \in 1..Len(scen.rows) :
                               RLt(target_annual.v, ScenarioTotals[i])})
        /\ IsPermutationOf(gaps.programs.rows, scen.rows)
        /\ \A j \in 1..Len(gaps.programs.rows) :
              gaps.programs.rows[j].gap_to_target_usd =
                  Num(RSub(ScenarioTotals[gaps.programs.rows[j].index + 1],
                           target_annual.v))
        /\ \A j, l \in 1..Len(gaps.programs.rows) :
              j < l => RLe(gaps.programs.rows[l].gap_to_target_usd.v,
                           gaps.programs.rows[j].gap_to_target_usd.v)

\* Three rows, one above and one below the target, and the programs table
\* in another order than the input.
C16_Witness ==
    /\ pc = "gaps"
    /\ gaps.k = "tables"
    /\ Len(scen.rows) = 3
    /\ target_annual = Num(R(50000))
    /\ \E i, j \in 1..3 :
          gaps.work[i].above_target /\ ~gaps.work[j].above_target
    /\ gaps.programs.rows[1].index # 0
    /\ RLt(gaps.programs.rows[3].gap_to_target_usd.v,
           gaps.programs.rows[1].gap_to_target_usd.v)

\* The target the specification gives for an input: the number when it is
\* one, and the median of the total column for None, text and NaN.
ExpectedTarget ==
    IF target_annual.k \in {"num", "numstr"} THEN target_annual.v
    ELSE Median(ScenarioTotals)

\* C17: compute_target_gap_tables raises on no target, and every gap is the
\* total minus the number given or, when the target is None, empty or other
\* text, or NaN, minus the median of the total column.
C17_UnusableTargetIsMedian ==
    pc = "gaps" =>
        /\ gaps.k = "tables"
        /\ \A i \in 1..Len(scen.rows) :
              gaps.work[i].gap_to_target_usd =
                  Num(RSub(ScenarioTotals[i], ExpectedTarget))

\* C18: on an empty dataset build_policy_frame returns an empty frame, and
\* on that frame summarize_policy_insights returns four empty tables,
\* apply_policy_scenario an empty frame and compute_target_gap_tables two
\* empty tables; none of them raises.
C18_EmptyInputGivesEmptyTables ==
    df.rows = <<>> =>
        /\ pc # "start" => (frame.k = "frame" /\ frame.rows = <<>>)
        /\ pc \in {"summarized", "scenario", "gaps"} =>
              /\ tables.k = "tables"
              /\ \A t \in {"total_annual", "affordability", "policy_gap",
                          "comparative"} :
                    tables[t].k = "frame" /\ tables[t].rows = <<>>
        /\ pc \in {"scenario", "gaps"} =>
              (scen.k = "frame" /\ scen.rows = <<>>)
        /\ pc = "gaps" =>
              /\ gaps.k = "tables"
              /\ \A t \in {"programs", "by_country_level"} :
                    gaps[t].k = "frame" /\ gaps[t].rows = <<>>

\* The four operations have run on the empty dataset.
C18_Witness ==
    /\ df.rows = <<>>
    /\ pc = "gaps"
    /\ frame.rows = <<>>
    /\ tables.k = "tables"
    /\ scen.rows = <<>>
    /\ gaps.k = "tables"
    /\ gaps.programs.rows = <<>>

\* The Country values of the frame that are not missing.
FrameCountries ==
    {frame.rows[i].Country :
        i \in {j \in 1..Len(frame.rows) : frame.rows[j].Country.k = "text"}}

\* The totals of the frame rows of Country c.
CountryTotals(c) ==
    {frame.rows[i].total_annual_usd :
        i \in {j \in 1..Len(frame.rows) : frame.rows[j].Country = c}}

\* C19: for a non-empty frame, total_annual holds every frame row once in
\* non-decreasing total_annual_usd order, affordability holds every frame
\* row once in non-increasing affordability_index order, comparative has
\* one row for each Country of the frame with the least and greatest total
\* of that country and a mean between them, in non-decreasing order of the
\* mean; the frame is as build_policy_frame returned it.
C19_SummaryTables ==
    (pc \in {"summarized", "scenario", "gaps"} /\ frame.rows # <<>>) =>
        /\ tables.k = "tables"
        /\ IsPermutationOf(tables.total_annual.rows, frame.rows)
        /\ \A j, l \in 1..Len(tables.total_annual.rows) :
              j < l => RLe(tables.total_annual.rows[j].total_annual_usd,
                           tables.total_annual.rows[l].total_annual_usd)
        /\ IsPermutationOf(tables.affordability.rows, frame.rows)
        /\ \A j, l \in 1..Len(tables.affordability.rows) :
              j < l => RLe(tables.affordability.rows[l].affordability_index,
                           tables.affordability.rows[j].affordability_index)
        /\ Len(tables.comparative.rows) = Cardinality(FrameCountries)
        /\ {tables.comparative.rows[j].Country :
               j \in 1..Len(tables.comparative.rows)} = FrameCountries
        /\ \A j \in 1..Len(tables.comparative.rows) :
              LET c == tables.comparative.rows[j]
              IN  /\ c.min_total_annual_usd \in CountryTotals(c.Country)
                  /\ c.max_total_annual_usd \in CountryTotals(c.Country)
                  /\ \A t \in CountryTotals(c.Country) :
                        /\ RLe(c.min_total_annual_usd, t)
                        /\ RLe(t, c.max_total_annual_usd)
                  /\ RLe(c.min_total_annual_usd, c.mean_total_annual_usd)
                  /\ RLe(c.mean_total_annual_usd, c.max_total_annual_usd)
        /\ \A j, l \in 1..Len(tables.comparative.rows) :
              j < l => RLe(tables.comparative.rows[j].mean_total_annual_usd,
                           tables.comparative.rows[l].mean_total_annual_usd)
        /\ frame = build_policy_frame(df, ny_living)

\* Three rows of two countries; both sorted tables and the comparative
\* table are in another order than the frame and its countries.
C19_Witness ==
    /\ pc = "summarized"
    /\ tables.k = "tables"
    /\ Len(frame.rows) = 3
    /\ tables.total_annual.rows[1].index # 0
    /\ tables.affordability.rows[1].index # 0
    /\ Len(tables.comparative.rows) = 2
    /\ tables.comparative.rows[1].Country = LevelB
    /\ RLt(tables.comparative.rows[1].min_total_annual_usd,
           tables.comparative.rows[1].mean_total_annual_usd)
    /\ RLt(tables.comparative.rows[1].mean_total_annual_usd,
           tables.comparative.rows[2].mean_total_annual_usd)

\* The scenario total of row i of the frame under the levers tc and ls.
ScenarioTotal(i, tc, ls) ==
    apply_policy_scenario(frame, tc, ls).rows[i].scenario_total_annual_usd

Messages == IF error.k = "msg" /\ error.text \in Seq(STRING)
            THEN {error.text[j] : j \in 1..Len(error.text)}
            ELSE {}

\* The parameter is text that is no number.
NotParseable(x) == x.k = "str"

\* A percentage that fails validation: no number, below 0 or above 100.
BadPercent(x) ==
    \/ NotParseable(x)
    \/ x.k = "numstr" /\ (RLt(x.v, R(0)) \/ RLt(R(100), x.v))

\* C23: in /policy-analysis on a non-empty dataset, a blank or unparseable
\* target_annual makes the median of total_annual_usd the target; a
\* target_annual that is a number not above zero is reported as an error
\* and is the target all the same; the gaps are the scenario totals minus
\* that target; a tuition_cut or living_subsidy that fails validation is
\* reported and the scenario is computed with 0 in its place.
C23_PolicyViewTargetAndLevers ==
    (pc = "policy_done" /\ "target_annual" \in DOMAIN form
        /\ frame.rows # <<>>) =>
        /\ scen.k = "frame" /\ gaps.k = "tables"
        /\ (form.target_annual.k = "empty" \/ NotParseable(form.target_annual))
              => target_annual =
                     Num(Median(Column(frame.rows, "total_annual_usd")))
        /\ (form.target_annual.k = "numstr"
               /\ RLe(form.target_annual.v, R(0)))
              => /\ TargetError \in Messages
                 /\ target_annual = Num(form.target_annual.v)
        /\ target_annual.k = "num" =>
              \A i \in 1..Len(scen.rows) :
                  gaps.work[i].gap_to_target_usd =
                      Num(RSub(scen.rows[i].scenario_total_annual_usd,
                               target_annual.v))
        /\ BadPercent(form.tuition_cut) =>
              /\ TuitionCutError \in Messages
              /\ levers.tuition_cut = Num(R(0))
              /\ \A i \in 1..Len(scen.rows) :
                    scen.rows[i].scenario_tuition_annual_usd =
                        frame.rows[i].Tuition_USD
        /\ BadPercent(form.living_subsidy) =>
              /\ LivingSubsidyError \in Messages
              /\ levers.living_subsidy = Num(R(0))
              /\ \A i \in 1..Len(scen.rows) :
                    scen.rows[i].scenario_indirect_annual_usd =
                        frame.rows[i].indirect_annual_usd

\* A target of -5 is reported and used: the gap of a row is its scenario
\* total plus 5; the tuition cut of 150 is reported and replaced by 0.
C23_Witness ==
    /\ pc = "policy_done"
    /\ form.target_annual = NumStr(R(-5))
    /\ form.tuition_cut = NumStr(R(150))
    /\ form.living_subsidy = NumStr(R(50))
    /\ Len(frame.rows) = 2
    /\ Messages = {TargetError, TuitionCutError}
    /\ target_annual = Num(R(-5))
    /\ levers = [tuition_cut |-> Num(R(0)), living_subsidy |-> Num(Frac(1, 2))]
    /\ gaps.k = "tables"
    /\ gaps.work[1].gap_to_target_usd =
           Num(RAdd(scen.rows[1].scenario_total_annual_usd, R(5)))
    /\ RLt(scen.rows[1].scenario_total_annual_usd,
           frame.rows[1].total_annual_usd)

\* A form field of /budget-planning that is malformed: no number, or a
\* negative one.
BadNonNegative(x) ==
    NotParseable(x) \/ (x.k = "numstr" /\ RLt(x.v, R(0)))

\* A target that is malformed: no number, or a number not above zero.
BadTarget(x) ==
    NotParseable(x) \/ (x.k = "numstr" /\ RLe(x.v, R(0)))

OwnCharts(r, content) ==
    /\ reqs[r].charts.k = "files"
    /\ \A n \in reqs[r].charts.names :
          /\ n \in DOMAIN files
          /\ files[n].content = content
          /\ files[n].writers = {r}

====
